---- MODULE Spec2Model ----
(***************************************************************************)
(* Model of the issue-processing pipeline of claude-slackbot:              *)
(*   processIssue            (handlers/issue-processor.ts)                  *)
(*   GitAutomationService    (services/git/automation.ts)                   *)
(*   SlackService            (services/slack/client.ts)                     *)
(* The Claude agent, the GitHub API service and the Vercel deployment      *)
(* service are not part of the available sources; they are modelled from   *)
(* their port contracts and from the result types in types/index.ts.       *)
(***************************************************************************)
EXTENDS Integers, Sequences, FiniteSets, TLC

\* ------------------------------------------------------------------------
\* Bounds of the model
\* ------------------------------------------------------------------------
MaxFiles == 2
MaxTs == 2
MaxTextLen == 3
MaxWords == 2

\* ------------------------------------------------------------------------
\* Program constants
\* ------------------------------------------------------------------------
DescLen == 50
SlugLen == 50
CommitPreviewLen == 50
TitleLen == 70
DeployTimeoutMinutes == 5

\* The value of an optional field that is absent (undefined).
Undef == "<undefined>"

Present(x) == x # Undef /\ x # ""

\* ------------------------------------------------------------------------
\* Strings are sequences of one-character strings.
\* ------------------------------------------------------------------------
LowerSeq == <<"a","b","c","d","e","f","g","h","i","j","k","l","m",
              "n","o","p","q","r","s","t","u","v","w","x","y","z">>
UpperSeq == <<"A","B","C","D","E","F","G","H","I","J","K","L","M",
              "N","O","P","Q","R","S","T","U","V","W","X","Y","Z">>
LowerChars == {LowerSeq[i] : i \in 1..26}
UpperChars == {UpperSeq[i] : i \in 1..26}
DigitChars == {"0","1","2","3","4","5","6","7","8","9"}
SpaceChars == {" ", "\t", "\n"}

\* String.prototype.toLowerCase, one character
LowerChar(c) ==
  IF c \in UpperChars
    THEN LowerSeq[CHOOSE i \in 1..26 : UpperSeq[i] = c]
    ELSE c

toLowerCase(s) == [i \in 1..Len(s) |-> LowerChar(s[i])]

Min(a, b) == IF a < b THEN a ELSE b

\* String.prototype.substring(0, n)
substring(s, n) == SubSeq(s, 1, Min(n, Len(s)))

\* String.prototype.includes
includes(s, kw) ==
  \E i \in 1..(Len(s) + 1) :
    /\ i + Len(kw) - 1 <= Len(s)
    /\ SubSeq(s, i, i + Len(kw) - 1) = kw

\* .replace(/[^a-z0-9\s-]/g, '')
StripSpecial(s) ==
  SelectSeq(s, LAMBDA c : c \in LowerChars \cup DigitChars \cup SpaceChars \cup {"-"})

\* .replace(/\s+/g, '-'): the last character of each run of whitespace
\* becomes the hyphen, the others of the run are dropped
CollapseSpaces(s) ==
  LET marked == [i \in 1..Len(s) |->
                   IF s[i] \notin SpaceChars THEN s[i]
                   ELSE IF i < Len(s) /\ s[i + 1] \in SpaceChars THEN ""
                   ELSE "-"]
  IN SelectSeq(marked, LAMBDA c : c # "")

KwBug == <<"b","u","g">>
KwFix == <<"f","i","x">>
KwError == <<"e","r","r","o","r">>
KwFeature == <<"f","e","a","t","u","r","e">>
KwAdd == <<"a","d","d">>
KwImplement == <<"i","m","p","l","e","m","e","n","t">>
KwRefactor == <<"r","e","f","a","c","t","o","r">>
KwImprove == <<"i","m","p","r","o","v","e">>
KwOptimize == <<"o","p","t","i","m","i","z","e">>

\* determineBranchType testing the feature keywords before the fix keywords
determineBranchTypeFeatFirst(text) ==
  LET lowerText == toLowerCase(text) IN
  IF includes(lowerText, KwFeature) \/ includes(lowerText, KwAdd)
       \/ includes(lowerText, KwImplement)
    THEN "feat"
  ELSE IF includes(lowerText, KwBug) \/ includes(lowerText, KwFix)
       \/ includes(lowerText, KwError)
    THEN "fix"
  ELSE IF includes(lowerText, KwRefactor) \/ includes(lowerText, KwImprove)
       \/ includes(lowerText, KwOptimize)
    THEN "refactor"
  ELSE "chore"

determineBranchType(text) ==
  LET lowerText == toLowerCase(text) IN
  IF includes(lowerText, KwBug) \/ includes(lowerText, KwFix)
       \/ includes(lowerText, KwError)
    THEN "fix"
  ELSE IF includes(lowerText, KwFeature) \/ includes(lowerText, KwAdd)
       \/ includes(lowerText, KwImplement)
    THEN "feat"
  ELSE IF includes(lowerText, KwRefactor) \/ includes(lowerText, KwImprove)
       \/ includes(lowerText, KwOptimize)
    THEN "refactor"
  ELSE "chore"

\* GitAutomationService.generateBranchName: a branch name is the pair of its
\* prefix and its slug, standing for the string `${prefix}/${sanitized}`.
\* a sanitization that writes whitespace runs as an underscore
sanitizeWithUnderscore(description) ==
  LET collapsed == CollapseSpaces(StripSpecial(toLowerCase(description))) IN
  substring([i \in 1..Len(collapsed) |->
               IF collapsed[i] = "-" THEN "_" ELSE collapsed[i]], SlugLen)

\* the sanitized description of generateBranchName
sanitize(description) ==
  substring(CollapseSpaces(StripSpecial(toLowerCase(description))), SlugLen)

generateBranchName(options) ==
  [prefix |-> options.type, slug |-> sanitize(options.description)]

\* The request texts of the model.
Texts ==
  { <<"F","i","x"," ","b","u","g">>,
    <<"A","d","d"," ","i","t","!">>,
    <<"t","i","d","y">> }

\* ------------------------------------------------------------------------
\* Values
\* ------------------------------------------------------------------------
FileNames == <<"src/a.ts", "src/b.ts", "src/c.ts", "src/d.ts">>
Files == {FileNames[i] : i \in 1..MaxFiles}

TsNames == <<"1700000000.000100", "1700000000.000200", "1700000000.000300",
             "1700000000.000400">>
TsValues == {TsNames[i] : i \in 1..MaxTs}

\* Duplicate-free lists of changed file paths
FileLists ==
  UNION {{f \in [1..n -> Files] : \A i, j \in 1..n : i # j => f[i] # f[j]}
           : n \in 0..MaxFiles}

\* config.github.baseBranch
BaseBranch == [prefix |-> "", slug |-> <<"m","a","i","n">>]
\* an absent (undefined) branch name
NoBranch == [prefix |-> Undef, slug |-> <<>>]

\* FixResult (types/index.ts); NoFix stands for an absent FixResult
NoFix ==
  [success |-> FALSE, analysis |-> Undef, solution |-> Undef,
   filesChanged |-> <<>>, error |-> Undef]

FixResults ==
  {[success |-> TRUE, analysis |-> "analysis", solution |-> "solution",
    filesChanged |-> fl, error |-> Undef] : fl \in FileLists}
  \cup
  {[success |-> FALSE, analysis |-> "", solution |-> "",
    filesChanged |-> <<>>, error |-> e] : e \in {Undef, "cannot determine intent"}}

\* GitBranchResult
NoBranchResult == [success |-> FALSE, branchName |-> NoBranch, error |-> Undef]
\* GitCommitResult
NoCommitResult ==
  [success |-> FALSE, hash |-> Undef, branch |-> NoBranch, error |-> Undef]

\* GitHubPRResult; prNumber 0 stands for an absent number
NoPRResult == [success |-> FALSE, prNumber |-> 0, prUrl |-> Undef, error |-> Undef]

PRResults ==
  { [success |-> TRUE, prNumber |-> 42,
     prUrl |-> "https://github.com/o/r/pull/42", error |-> Undef],
    [success |-> TRUE, prNumber |-> 0,
     prUrl |-> "https://github.com/o/r/pull/42", error |-> Undef],
    [success |-> FALSE, prNumber |-> 0, prUrl |-> Undef,
     error |-> "Validation Failed"] }

\* DeploymentResult; NoDeployment stands for an absent result
NoDeployment == [success |-> FALSE, url |-> Undef, status |-> Undef, error |-> Undef]

DeploymentResults ==
  { [success |-> TRUE, url |-> "https://preview.vercel.app", status |-> "READY",
     error |-> Undef],
    [success |-> TRUE, url |-> Undef, status |-> "READY", error |-> Undef],
    [success |-> FALSE, url |-> Undef, status |-> "ERROR", error |-> Undef],
    [success |-> FALSE, url |-> Undef, status |-> Undef,
     error |-> "Deployment timeout after 5 minutes"] }

\* JobResult (types/index.ts)
JobResultOf(id, status, bn, pr, preview, fix, dep, err) ==
  [jobId |-> id, status |-> status, branchName |-> bn, prUrl |-> pr,
   previewUrl |-> preview, result |-> fix, deployment |-> dep, error |-> err]

NoJobResult ==
  JobResultOf(Undef, Undef, NoBranch, Undef, Undef, NoFix, NoDeployment, Undef)

\* Messages of the exceptions that reach the top-level catch
SlackPostError == "Slack API error: post"
SlackUpdateError == "Slack API error: update"
GitInitError == "git: initializeRepo failed"
GitNotInitialized == "Git not initialized. Call initializeRepo() first."
GitCommandError == "git: command failed"
\* git checkout -b on a name that is already a local branch
BranchExistsError == "fatal: a branch with that name already exists"
AgentError == "Claude agent error"
GitHubError == "GitHub API error"

\* The local working copy when it has not been cloned yet
NoRepo ==
  [exists |-> FALSE, current |-> NoBranch, branches |-> {}, commits |-> <<>>,
   pushed |-> {}, dirty |-> FALSE]
FreshRepo ==
  [exists |-> TRUE, current |-> BaseBranch, branches |-> {BaseBranch},
   commits |-> <<>>, pushed |-> {}, dirty |-> FALSE]

\* ------------------------------------------------------------------------
\* Configuration (src/config/index.ts)
\* ------------------------------------------------------------------------
\* an environment variable that is not set (process.env.X is undefined)
Unset == <<"<unset>">>

\* String.prototype.startsWith
startsWith(s, prefix) ==
  Len(s) >= Len(prefix) /\ SubSeq(s, 1, Len(prefix)) = prefix

\* process.env.X || fallback
OrElse(v, fallback) == IF v = Unset \/ v = <<>> THEN fallback ELSE v

\* z.string().url(): the text parses as an absolute URL, a scheme of letters
\* followed by ':' and a non-empty rest
isUrl(s) ==
  \E i \in 2..Len(s) :
    /\ s[i] = ":"
    /\ \A k \in 1..(i - 1) : s[k] \in LowerChars \cup UpperChars
    /\ Len(s) > i

\* the prefixes ConfigSchema asks for
Prefix ==
  [xoxb |-> <<"x","o","x","b","-">>,
   C |-> <<"C">>,
   skAnt |-> <<"s","k","-","a","n","t","-">>,
   ghp |-> <<"g","h","p","_">>]
Main == <<"m","a","i","n">>
\* z.enum(['development', 'production', 'test'])
NodeEnvNames ==
  << <<"d","e","v","e","l","o","p","m","e","n","t">>,
     <<"p","r","o","d","u","c","t","i","o","n">>,
     <<"t","e","s","t">> >>
\* z.enum(['debug', 'info', 'warn', 'error'])
LogLevelNames ==
  << <<"d","e","b","u","g">>, <<"i","n","f","o">>, <<"w","a","r","n">>,
     <<"e","r","r","o","r">> >>

RequiredVars ==
  {"SLACK_BOT_TOKEN", "SLACK_SIGNING_SECRET", "SLACK_CHANNEL_ID",
   "ANTHROPIC_API_KEY", "GITHUB_TOKEN", "GITHUB_USERNAME", "TARGET_REPO_URL"}
EnvVars == RequiredVars \cup {"BASE_BRANCH", "NODE_ENV", "LOG_LEVEL"}

\* loadConfig: const rawConfig
rawConfig(e) ==
  [slack |-> [botToken |-> OrElse(e["SLACK_BOT_TOKEN"], <<>>),
              signingSecret |-> OrElse(e["SLACK_SIGNING_SECRET"], <<>>),
              channelId |-> OrElse(e["SLACK_CHANNEL_ID"], <<>>)],
   claude |-> [apiKey |-> OrElse(e["ANTHROPIC_API_KEY"], <<>>)],
   github |-> [token |-> OrElse(e["GITHUB_TOKEN"], <<>>),
               username |-> OrElse(e["GITHUB_USERNAME"], <<>>),
               targetRepoUrl |-> OrElse(e["TARGET_REPO_URL"], <<>>),
               baseBranch |-> OrElse(e["BASE_BRANCH"], Main)],
   nodeEnv |-> OrElse(e["NODE_ENV"], NodeEnvNames[1]),
   logLevel |-> OrElse(e["LOG_LEVEL"], LogLevelNames[2])]

\* ConfigSchema without the check of the channel id prefix
SchemaAcceptsAnyChannel(raw) ==
  /\ startsWith(raw.slack.botToken, Prefix.xoxb)
  /\ Len(raw.slack.signingSecret) >= 1
  /\ startsWith(raw.claude.apiKey, Prefix.skAnt)
  /\ startsWith(raw.github.token, Prefix.ghp)
  /\ Len(raw.github.username) >= 1
  /\ isUrl(raw.github.targetRepoUrl)
  /\ raw.nodeEnv \in {NodeEnvNames[i] : i \in 1..3}
  /\ raw.logLevel \in {LogLevelNames[i] : i \in 1..4}

\* ConfigSchema.parse(raw) does not raise a ZodError
ConfigSchema(raw) ==
  /\ startsWith(raw.slack.botToken, Prefix.xoxb)
  /\ Len(raw.slack.signingSecret) >= 1
  /\ startsWith(raw.slack.channelId, Prefix.C)
  /\ startsWith(raw.claude.apiKey, Prefix.skAnt)
  /\ startsWith(raw.github.token, Prefix.ghp)
  /\ Len(raw.github.username) >= 1
  /\ isUrl(raw.github.targetRepoUrl)
  /\ raw.nodeEnv \in {NodeEnvNames[i] : i \in 1..3}
  /\ raw.logLevel \in {LogLevelNames[i] : i \in 1..4}

\* no config object: loadConfig threw
NoConfig == [loaded |-> FALSE]
ConfigOf(raw) == [loaded |-> TRUE, value |-> raw]
InvalidConfiguration == "Invalid configuration. See errors above."

\* an environment with every variable set to an accepted value
GoodEnv ==
  [v \in EnvVars |->
     CASE v = "SLACK_BOT_TOKEN" -> <<"x","o","x","b","-","1">>
       [] v = "SLACK_SIGNING_SECRET" -> <<"s","3">>
       [] v = "SLACK_CHANNEL_ID" -> <<"C","0","1">>
       [] v = "ANTHROPIC_API_KEY" -> <<"s","k","-","a","n","t","-","1">>
       [] v = "GITHUB_TOKEN" -> <<"g","h","p","_","1">>
       [] v = "GITHUB_USERNAME" -> <<"b","o","t">>
       [] v = "TARGET_REPO_URL" -> <<"h","t","t","p","s",":","/","/","g",".","c","o","/","r">>
       [] v = "BASE_BRANCH" -> Main
       [] v = "NODE_ENV" -> NodeEnvNames[2]
       [] v = "LOG_LEVEL" -> LogLevelNames[1]]

\* values that are set but do not satisfy the variable's rule; a variable
\* whose only rule is to be non-empty has the empty text here
BadValue(v) ==
  CASE v = "SLACK_BOT_TOKEN" -> <<"x","o","x","p","-","1">>
    [] v = "SLACK_SIGNING_SECRET" -> <<>>
    [] v = "SLACK_CHANNEL_ID" -> <<"D","0","1">>
    [] v = "ANTHROPIC_API_KEY" -> <<"s","k","-","1">>
    [] v = "GITHUB_TOKEN" -> <<"g","h","o","_","1">>
    [] v = "GITHUB_USERNAME" -> <<>>
    [] v = "TARGET_REPO_URL" -> <<"g",".","c","o","/","r">>
    [] v = "BASE_BRANCH" -> <<>>
    [] v = "NODE_ENV" -> <<"s","t","a","g","e">>
    [] v = "LOG_LEVEL" -> <<"t","r","a","c","e">>

\* the environments loadConfig is run in: each variable is unset, set to an
\* accepted value or set to a rejected one
Envs ==
  {[v \in EnvVars |->
      CASE c[v] = "unset" -> Unset
        [] c[v] = "good" -> GoodEnv[v]
        [] c[v] = "bad" -> BadValue(v)] : c \in [EnvVars -> {"unset", "good", "bad"}]}

\* ------------------------------------------------------------------------
\* State
\* ------------------------------------------------------------------------
VARIABLES
  pc,                \* position of processIssue
  job,               \* the IssueJob being processed
  statusMessageTs,   \* processIssue: let statusMessageTs
  branchName,        \* processIssue: let branchName
  fixResult,         \* processIssue: const fixResult
  branchResult,      \* processIssue: const branchResult
  commitResult,      \* processIssue: const commitResult
  prResult,          \* processIssue: const prResult
  deployment,        \* processIssue: const deployment
  caught,            \* message of the error caught by the top-level catch
  jobResult,         \* the JobResult processIssue returned
  log,               \* the port calls made so far, in order
  git,               \* GitAutomationService.git is set
  repo,              \* the local working copy at GitAutomationService.repoPath
  queue,             \* Job Queue: the jobs waiting, oldest first
  handlerSet,        \* Job Queue: setHandler has registered the handler
  processing,        \* Job Queue: a handler invocation is under way
  active,            \* ids of the jobs whose handler invocation has not settled
  enqueued,          \* ids in the order enqueue accepted them
  started,           \* ids in the order the handler was invoked for them
  dropped,           \* ids of the jobs dropped after the last attempt
  env,               \* process.env at module load
  config             \* config/index.ts: export const config

\* the state of the Job Queue
qvars == <<queue, handlerSet, processing, active, enqueued, started, dropped>>

\* the configuration singleton and the environment it was loaded from
cvars == <<env, config>>

vars == <<pc, job, statusMessageTs, branchName, fixResult, branchResult,
          commitResult, prResult, deployment, caught, jobResult, log, git, repo,
          qvars, cvars>>

locals == <<statusMessageTs, branchName, fixResult, branchResult, commitResult,
            prResult, deployment>>

Call(op, arg, ok) == [op |-> op, arg |-> arg, ok |-> ok]

Logged(op, arg, ok) == log' = Append(log, Call(op, arg, ok))

\* an exception leaves the try block for the top-level catch
Throw(msg) == pc' = "catch" /\ caught' = msg /\ jobResult' = jobResult

\* processIssue returns
Return(r) == pc' = "returned" /\ jobResult' = r /\ caught' = caught

Goto(l) == pc' = l /\ caught' = caught /\ jobResult' = jobResult

Jobs ==
  {[id |-> "1700000000.000001", text |-> t, channel |-> "C01234567",
    threadTs |-> "1700000000.000001", userId |-> "U01234567",
    timestamp |-> 1700000000, retryCount |-> 0]
     : t \in Texts}

\* the services run with the configuration a valid environment loads to
Configured ==
  /\ env = GoodEnv
  /\ config = ConfigOf(rawConfig(GoodEnv))

\* the Queue has invoked the handler for job j, its first attempt
Invoking(j) ==
  /\ queue = <<>>
  /\ handlerSet = TRUE
  /\ processing = TRUE
  /\ active = {j.id}
  /\ enqueued = <<j.id>>
  /\ started = <<j.id>>
  /\ dropped = {}

Init ==
  /\ pc = "start"
  /\ job \in Jobs
  /\ Invoking(job)
  /\ Configured
  /\ statusMessageTs = Undef
  /\ branchName = NoBranch
  /\ fixResult = NoFix
  /\ branchResult = NoBranchResult
  /\ commitResult = NoCommitResult
  /\ prResult = NoPRResult
  /\ deployment = NoDeployment
  /\ caught = Undef
  /\ jobResult = NoJobResult
  /\ log = <<>>
  /\ git = FALSE
  /\ repo \in {NoRepo, FreshRepo}

\* ------------------------------------------------------------------------
\* SlackService
\* ------------------------------------------------------------------------
\* addReaction rethrowing the failure of the API call
addReactionThrowing(emoji, next) ==
  \/ /\ Logged("addReaction", emoji, TRUE)
     /\ next
  \/ /\ Logged("addReaction", emoji, FALSE)
     /\ Throw(SlackPostError)

\* addReaction: a failure of the API call is logged and swallowed
addReaction(emoji, next) ==
  /\ \E ok \in BOOLEAN : Logged("addReaction", emoji, ok)
  /\ next

\* SlackService.updateMessage on the status message: returns, or rethrows the
\* API error to its caller
slackUpdate(next, onThrow) ==
  \/ /\ Logged("updateMessage", statusMessageTs, TRUE)
     /\ next
  \/ /\ Logged("updateMessage", statusMessageTs, FALSE)
     /\ onThrow

\* updateMessage replaced by a call that posts a new message at each stage
PostInsteadOfUpdate(next) ==
  \/ \E ts \in TsValues :
       /\ Logged("postMessage", ts, TRUE)
       /\ next
  \/ /\ Logged("postMessage", Undef, FALSE)
     /\ Throw(SlackPostError)

\* an updateMessage call inside the try block of processIssue
updateMessage(next) == slackUpdate(next, Throw(SlackUpdateError))

\* ------------------------------------------------------------------------
\* processIssue, STEP 1: acknowledge in Slack
\* ------------------------------------------------------------------------
AckReaction ==
  /\ pc = "start"
  /\ addReaction("eyes", Goto("post_status"))
  /\ UNCHANGED <<cvars, qvars, job, locals, git, repo>>

\* the first status post going on without a status message when it fails
PostStatusContinuing ==
  /\ pc = "post_status"
  /\ \/ \E ts \in TsValues :
          /\ Logged("postMessage", ts, TRUE)
          /\ statusMessageTs' = ts
          /\ Goto("upd_clone")
     \/ /\ Logged("postMessage", Undef, FALSE)
        /\ Goto("upd_clone")
        /\ UNCHANGED statusMessageTs
  /\ UNCHANGED <<cvars, qvars, job, branchName, fixResult, branchResult, commitResult,
                 prResult, deployment, git, repo>>

\* SlackService.postMessage returns the handle of the new message, or
\* rethrows the API error
PostStatus ==
  /\ pc = "post_status"
  /\ \/ \E ts \in TsValues :
          /\ Logged("postMessage", ts, TRUE)
          /\ statusMessageTs' = ts
          /\ Goto("upd_clone")
     \/ /\ Logged("postMessage", Undef, FALSE)
        /\ Throw(SlackPostError)
        /\ UNCHANGED statusMessageTs
  /\ UNCHANGED <<cvars, qvars, job, branchName, fixResult, branchResult, commitResult,
                 prResult, deployment, git, repo>>

\* ------------------------------------------------------------------------
\* STEP 2: initialize the git repository
\* ------------------------------------------------------------------------
UpdCloning ==
  /\ pc = "upd_clone"
  /\ updateMessage(Goto("init_repo"))
  /\ UNCHANGED <<cvars, qvars, job, locals, git, repo>>

\* GitAutomationService.initializeRepo: clone if absent, set the client,
\* check out and pull the base branch; any failure is logged and rethrown.
InitializeRepo ==
  /\ pc = "init_repo"
  /\ \E fail \in {"none", "clone", "checkout", "pull"} :
       /\ fail = "clone" => ~repo.exists
       /\ IF fail = "clone"
            THEN /\ UNCHANGED <<git, repo>>
                 /\ Logged("initializeRepo", fail, FALSE)
                 /\ Throw(GitInitError)
            ELSE /\ git' = TRUE
                 /\ repo' =
                      LET cloned == IF repo.exists THEN repo ELSE FreshRepo IN
                      IF fail = "checkout" THEN cloned
                      ELSE [cloned EXCEPT !.current = BaseBranch]
                 /\ IF fail = "none"
                      THEN Logged("initializeRepo", fail, TRUE) /\ Goto("upd_agent")
                      ELSE Logged("initializeRepo", fail, FALSE) /\ Throw(GitInitError)
  /\ UNCHANGED <<cvars, qvars, job, locals>>

\* ------------------------------------------------------------------------
\* STEP 3: analyze with Claude
\* ------------------------------------------------------------------------
UpdAgent ==
  /\ pc = "upd_agent"
  /\ updateMessage(Goto("analyze"))
  /\ UNCHANGED <<cvars, qvars, job, locals, git, repo>>

\* claudeAgentService.analyzeAndFix: returns a FixResult, or throws. The
\* agent edits the working tree; the files it reports need not be the files
\* it modified, so a reported change may leave the tree clean.
AnalyzeAndFix ==
  /\ pc = "analyze"
  /\ \/ \E fr \in FixResults :
          /\ fixResult' = fr
          /\ Logged("analyzeAndFix", job.text, fr.success)
          /\ IF ~fr.success THEN Goto("analysis_failed") /\ UNCHANGED repo
             ELSE IF Len(fr.filesChanged) = 0
               THEN Goto("no_changes") /\ UNCHANGED repo
             ELSE /\ Goto("upd_branch")
                  /\ \E d \in BOOLEAN : repo' = [repo EXCEPT !.dirty = d]
     \/ /\ UNCHANGED <<fixResult, repo>>
        /\ Logged("analyzeAndFix", job.text, FALSE)
        /\ Throw(AgentError)
  /\ UNCHANGED <<cvars, qvars, job, statusMessageTs, branchName, branchResult, commitResult,
                 prResult, deployment, git>>

AnalysisFailedExit ==
  /\ pc = "analysis_failed"
  /\ updateMessage(Return(JobResultOf(job.id, "failed", NoBranch, Undef, Undef,
                                      NoFix, NoDeployment, fixResult.error)))
  /\ UNCHANGED <<cvars, qvars, job, locals, git, repo>>

NoChangesExit ==
  /\ pc = "no_changes"
  /\ updateMessage(Return(JobResultOf(job.id, "completed", NoBranch, Undef, Undef,
                                      fixResult, NoDeployment, Undef)))
  /\ UNCHANGED <<cvars, qvars, job, locals, git, repo>>

\* ------------------------------------------------------------------------
\* STEP 4: create the git branch
\* ------------------------------------------------------------------------
UpdBranch ==
  /\ pc = "upd_branch"
  /\ updateMessage(Goto("create_branch"))
  /\ UNCHANGED <<cvars, qvars, job, locals, git, repo>>

\* processIssue: const branchOptions
branchOptions(text) ==
  [type |-> determineBranchType(text), description |-> substring(text, DescLen)]

\* a derivation that makes the name unique per job by appending the job id
deriveBranchNameWithId(j) ==
  LET name == generateBranchName(branchOptions(j.text)) IN
  [name EXCEPT !.slug = substring(@ \o <<"-", j.id>>, SlugLen)]

\* the branch name processIssue has createBranch derive for a job
deriveBranchName(j) == generateBranchName(branchOptions(j.text))

\* git branch -D name: the branch and the commits only it holds are gone
deleteLocalBranch(r, name) ==
  [r EXCEPT !.branches = @ \ {name},
            !.commits = SelectSeq(@, LAMBDA c : c.branch # name)]

\* createBranch without the deletion of a same-named local branch
CreateBranchKeepingStale ==
  /\ pc = "create_branch"
  /\ \E name \in {deriveBranchName(job)},
        fail \in {"none", "checkout", "pull", "create"} :
       LET onBase == [repo EXCEPT !.current = BaseBranch]
           exists == name \in onBase.branches
           ok == fail = "none" /\ ~exists
       IN
       /\ repo' =
            IF fail = "checkout" THEN repo
            ELSE IF ~ok THEN onBase
            ELSE [onBase EXCEPT !.branches = @ \cup {name}, !.current = name]
       /\ branchResult' =
            IF ok THEN [success |-> TRUE, branchName |-> name, error |-> Undef]
            ELSE IF fail = "none"
              THEN [success |-> FALSE, branchName |-> NoBranch,
                    error |-> BranchExistsError]
            ELSE [success |-> FALSE, branchName |-> NoBranch,
                  error |-> GitCommandError]
       /\ Logged("createBranch", name, ok)
       /\ IF ~ok \/ name = NoBranch
            THEN Goto("branch_failed") /\ UNCHANGED branchName
            ELSE Goto("upd_commit") /\ branchName' = name
  /\ UNCHANGED <<cvars, qvars, job, statusMessageTs, fixResult, commitResult, prResult,
                 deployment, git>>

\* createBranch making the branch without switching to it
CreateBranchWithoutCheckout ==
  /\ pc = "create_branch"
  /\ IF ~git
       THEN /\ Logged("createBranch", NoBranch, FALSE)
            /\ Throw(GitNotInitialized)
            /\ UNCHANGED <<branchResult, branchName, repo>>
       ELSE \E name \in {deriveBranchName(job)},
               fail \in {"none", "checkout", "pull", "create"} :
              LET onBase == [repo EXCEPT !.current = BaseBranch]
                  cleaned == deleteLocalBranch(onBase, name)
                  ok == fail = "none"
              IN
              /\ repo' =
                   IF fail = "checkout" THEN repo
                   ELSE IF fail = "pull" THEN onBase
                   ELSE IF ~ok THEN cleaned
                   ELSE [cleaned EXCEPT !.branches = @ \cup {name}]
              /\ branchResult' =
                   IF ok THEN [success |-> TRUE, branchName |-> name, error |-> Undef]
                   ELSE [success |-> FALSE, branchName |-> NoBranch,
                         error |-> GitCommandError]
              /\ Logged("createBranch", name, ok)
              /\ IF ~ok \/ name = NoBranch
                   THEN Goto("branch_failed") /\ UNCHANGED branchName
                   ELSE Goto("upd_commit") /\ branchName' = name
  /\ UNCHANGED <<cvars, qvars, job, statusMessageTs, fixResult, commitResult, prResult,
                 deployment, git>>

\* GitAutomationService.createBranch: check out and pull the base branch,
\* delete a same-named local branch (a failure of the deletion is swallowed:
\* the branch did not exist), create and check out the new branch.
\* A failing git command yields {success: false, error}.
CreateBranch ==
  /\ pc = "create_branch"
  /\ IF ~git
       THEN /\ Logged("createBranch", NoBranch, FALSE)
            /\ Throw(GitNotInitialized)
            /\ UNCHANGED <<branchResult, branchName, repo>>
       ELSE \E name \in {deriveBranchName(job)},
               fail \in {"none", "checkout", "pull", "create"} :
              LET onBase == [repo EXCEPT !.current = BaseBranch]
                  cleaned == deleteLocalBranch(onBase, name)
                  ok == fail = "none"
              IN
              /\ repo' =
                   IF fail = "checkout" THEN repo
                   ELSE IF fail = "pull" THEN onBase
                   ELSE IF ~ok THEN cleaned
                   ELSE [cleaned EXCEPT !.branches = @ \cup {name},
                                        !.current = name]
              /\ branchResult' =
                   IF ok THEN [success |-> TRUE, branchName |-> name, error |-> Undef]
                   ELSE [success |-> FALSE, branchName |-> NoBranch,
                         error |-> GitCommandError]
              /\ Logged("createBranch", name, ok)
              /\ IF ~ok \/ name = NoBranch
                   THEN Goto("branch_failed") /\ UNCHANGED branchName
                   ELSE Goto("upd_commit") /\ branchName' = name
  /\ UNCHANGED <<cvars, qvars, job, statusMessageTs, fixResult, commitResult, prResult,
                 deployment, git>>

BranchFailedExit ==
  /\ pc = "branch_failed"
  /\ updateMessage(Return(JobResultOf(job.id, "failed", NoBranch, Undef, Undef,
                                      fixResult, NoDeployment, branchResult.error)))
  /\ UNCHANGED <<cvars, qvars, job, locals, git, repo>>

\* ------------------------------------------------------------------------
\* STEP 5: commit the changes
\* ------------------------------------------------------------------------
UpdCommit ==
  /\ pc = "upd_commit"
  /\ updateMessage(Goto("commit"))
  /\ UNCHANGED <<cvars, qvars, job, locals, git, repo>>

generateCommitMessage(issueText, solution, filesChanged) ==
  [preview |-> substring(issueText, CommitPreviewLen),
   ellipsis |-> Len(issueText) > CommitPreviewLen,
   solution |-> solution,
   files |-> filesChanged]

\* commitChanges without the check for an empty status: it always commits
CommitChangesAlways ==
  /\ pc = "commit"
  /\ LET message == generateCommitMessage(job.text, fixResult.solution,
                                          fixResult.filesChanged)
         files == fixResult.filesChanged
         staged == IF Len(files) > 0 THEN files ELSE <<".">>
     IN
     \E failed \in BOOLEAN :
       /\ commitResult' =
            IF failed
              THEN [success |-> FALSE, hash |-> Undef,
                    branch |-> NoBranch, error |-> GitCommandError]
              ELSE [success |-> TRUE, hash |-> "abc1234def",
                    branch |-> repo.current, error |-> Undef]
       /\ repo' =
            IF failed THEN repo
            ELSE [repo EXCEPT !.dirty = FALSE,
                              !.commits =
                                Append(@, [branch |-> repo.current,
                                           staged |-> staged,
                                           message |-> message])]
       /\ Logged("commitChanges", staged, ~failed)
       /\ IF failed THEN Goto("commit_failed") ELSE Goto("upd_push")
  /\ UNCHANGED <<cvars, qvars, job, statusMessageTs, branchName, fixResult, branchResult,
                 prResult, deployment, git>>

\* commitChanges staging everything, whatever file list it is given
CommitChangesStagingAll ==
  /\ pc = "commit"
  /\ LET message == generateCommitMessage(job.text, fixResult.solution,
                                          fixResult.filesChanged)
         files == fixResult.filesChanged
         staged == <<".">>
     IN
     IF ~git
       THEN /\ Logged("commitChanges", staged, FALSE)
            /\ Throw(GitNotInitialized)
            /\ UNCHANGED <<commitResult, repo>>
       ELSE \E failed \in BOOLEAN :
              /\ commitResult' =
                   IF failed
                     THEN [success |-> FALSE, hash |-> Undef,
                           branch |-> NoBranch, error |-> GitCommandError]
                   ELSE IF ~repo.dirty
                     THEN [success |-> TRUE, hash |-> Undef,
                           branch |-> repo.current, error |-> Undef]
                   ELSE [success |-> TRUE, hash |-> "abc1234def",
                         branch |-> repo.current, error |-> Undef]
              /\ repo' =
                   IF failed \/ ~repo.dirty THEN repo
                   ELSE [repo EXCEPT !.dirty = FALSE,
                                     !.commits =
                                       Append(@, [branch |-> repo.current,
                                                  staged |-> staged,
                                                  message |-> message])]
              /\ Logged("commitChanges", staged, ~failed)
              /\ IF failed THEN Goto("commit_failed") ELSE Goto("upd_push")
  /\ UNCHANGED <<cvars, qvars, job, statusMessageTs, branchName, fixResult, branchResult,
                 prResult, deployment, git>>

\* GitAutomationService.commitChanges: stage the files (or everything when
\* the list is empty); when the status then lists no file, succeed without
\* committing; otherwise commit. A failing git command yields
\* {success: false, error}.
CommitChanges ==
  /\ pc = "commit"
  /\ LET message == generateCommitMessage(job.text, fixResult.solution,
                                          fixResult.filesChanged)
         files == fixResult.filesChanged
         staged == IF Len(files) > 0 THEN files ELSE <<".">>
     IN
     IF ~git
       THEN /\ Logged("commitChanges", staged, FALSE)
            /\ Throw(GitNotInitialized)
            /\ UNCHANGED <<commitResult, repo>>
       ELSE \E failed \in BOOLEAN :
              /\ commitResult' =
                   IF failed
                     THEN [success |-> FALSE, hash |-> Undef,
                           branch |-> NoBranch, error |-> GitCommandError]
                   ELSE IF ~repo.dirty
                     THEN [success |-> TRUE, hash |-> Undef,
                           branch |-> repo.current, error |-> Undef]
                   ELSE [success |-> TRUE, hash |-> "abc1234def",
                         branch |-> repo.current, error |-> Undef]
              /\ repo' =
                   IF failed \/ ~repo.dirty THEN repo
                   ELSE [repo EXCEPT !.dirty = FALSE,
                                     !.commits =
                                       Append(@, [branch |-> repo.current,
                                                  staged |-> staged,
                                                  message |-> message])]
              /\ Logged("commitChanges", staged, ~failed)
              /\ IF failed THEN Goto("commit_failed") ELSE Goto("upd_push")
  /\ UNCHANGED <<cvars, qvars, job, statusMessageTs, branchName, fixResult, branchResult,
                 prResult, deployment, git>>

CommitFailedExit ==
  /\ pc = "commit_failed"
  /\ updateMessage(Return(JobResultOf(job.id, "failed", NoBranch, Undef, Undef,
                                      fixResult, NoDeployment, commitResult.error)))
  /\ UNCHANGED <<cvars, qvars, job, locals, git, repo>>

\* ------------------------------------------------------------------------
\* STEP 6: push to the remote
\* ------------------------------------------------------------------------
UpdPush ==
  /\ pc = "upd_push"
  /\ updateMessage(Goto("push"))
  /\ UNCHANGED <<cvars, qvars, job, locals, git, repo>>

\* processIssue carrying on to the pull request although the push failed
PushBranchIgnoringFailure ==
  /\ pc = "push"
  /\ \E pushSuccess \in BOOLEAN :
       /\ repo' = IF pushSuccess
                    THEN [repo EXCEPT !.pushed = @ \cup {branchName}]
                    ELSE repo
       /\ Logged("pushBranch", branchName, pushSuccess)
       /\ Goto("upd_pr")
  /\ UNCHANGED <<cvars, qvars, job, locals, git>>

\* GitAutomationService.pushBranch: true, or false when a git command fails
PushBranch ==
  /\ pc = "push"
  /\ IF ~git
       THEN /\ Logged("pushBranch", branchName, FALSE)
            /\ Throw(GitNotInitialized)
            /\ UNCHANGED repo
       ELSE \E pushSuccess \in BOOLEAN :
              /\ repo' = IF pushSuccess
                           THEN [repo EXCEPT !.pushed = @ \cup {branchName}]
                           ELSE repo
              /\ Logged("pushBranch", branchName, pushSuccess)
              /\ IF pushSuccess THEN Goto("upd_pr") ELSE Goto("push_failed")
  /\ UNCHANGED <<cvars, qvars, job, locals, git>>

\* a failed push sending the job back to the push stage
PushFailedRetrying ==
  /\ pc = "push_failed"
  /\ updateMessage(Goto("upd_push"))
  /\ UNCHANGED <<cvars, qvars, job, locals, git, repo>>

PushFailedExit ==
  /\ pc = "push_failed"
  /\ updateMessage(Return(JobResultOf(job.id, "failed", NoBranch, Undef, Undef,
                                      fixResult, NoDeployment,
                                      "Failed to push to remote")))
  /\ UNCHANGED <<cvars, qvars, job, locals, git, repo>>

\* ------------------------------------------------------------------------
\* STEP 7: create the pull request
\* ------------------------------------------------------------------------
UpdPR ==
  /\ pc = "upd_pr"
  /\ updateMessage(Goto("create_pr"))
  /\ UNCHANGED <<cvars, qvars, job, locals, git, repo>>

generatePRTitle(issueText, type) ==
  [prefix |-> IF type = "fix" THEN "Fix:"
              ELSE IF type = "feat" THEN "Feature:" ELSE "Refactor:",
   title |-> substring(issueText, TitleLen),
   ellipsis |-> Len(issueText) > TitleLen]

\* processIssue going from the PR creation to the deployment stage without labels
CreatePullRequestWithoutLabels ==
  /\ pc = "create_pr"
  /\ LET prTitle == generatePRTitle(job.text, determineBranchType(job.text)) IN
     \/ \E pr \in PRResults :
          /\ prResult' = pr
          /\ Logged("createPullRequest", <<branchName, prTitle>>, pr.success)
          /\ IF ~pr.success \/ ~Present(pr.prUrl) THEN Goto("pr_failed")
             ELSE Goto("upd_deploy")
     \/ /\ UNCHANGED prResult
        /\ Logged("createPullRequest", <<branchName, prTitle>>, FALSE)
        /\ Throw(GitHubError)
  /\ UNCHANGED <<cvars, qvars, job, statusMessageTs, branchName, fixResult, branchResult,
                 commitResult, deployment, git, repo>>

\* githubAPIService.createPullRequest: returns a GitHubPRResult, or throws
CreatePullRequest ==
  /\ pc = "create_pr"
  /\ LET prTitle == generatePRTitle(job.text, determineBranchType(job.text)) IN
     \/ \E pr \in PRResults :
          /\ prResult' = pr
          /\ Logged("createPullRequest", <<branchName, prTitle>>, pr.success)
          /\ IF ~pr.success \/ ~Present(pr.prUrl) THEN Goto("pr_failed")
             ELSE IF pr.prNumber # 0 THEN Goto("add_labels")
             ELSE Goto("upd_deploy")
     \/ /\ UNCHANGED prResult
        /\ Logged("createPullRequest", <<branchName, prTitle>>, FALSE)
        /\ Throw(GitHubError)
  /\ UNCHANGED <<cvars, qvars, job, statusMessageTs, branchName, fixResult, branchResult,
                 commitResult, deployment, git, repo>>

PRFailedExit ==
  /\ pc = "pr_failed"
  /\ updateMessage(Return(JobResultOf(job.id, "completed", branchName, Undef, Undef,
                                      fixResult, NoDeployment, prResult.error)))
  /\ UNCHANGED <<cvars, qvars, job, locals, git, repo>>

\* githubAPIService.addLabels(prNumber, ['automated', 'claude-fix'])
AddLabels ==
  /\ pc = "add_labels"
  /\ \/ \E ok \in BOOLEAN :
          /\ Logged("addLabels", <<"automated", "claude-fix">>, ok)
          /\ Goto("upd_deploy")
     \/ /\ Logged("addLabels", <<"automated", "claude-fix">>, FALSE)
        /\ Throw(GitHubError)
  /\ UNCHANGED <<cvars, qvars, job, locals, git, repo>>

\* ------------------------------------------------------------------------
\* STEP 8: wait for the deployment
\* ------------------------------------------------------------------------
UpdDeploy ==
  /\ pc = "upd_deploy"
  /\ updateMessage(Goto("wait_deploy"))
  /\ UNCHANGED <<cvars, qvars, job, locals, git, repo>>

\* vercelDeploymentService.waitForDeployment(branchName, 5): always resolves
WaitForDeployment ==
  /\ pc = "wait_deploy"
  /\ \E d \in DeploymentResults :
       /\ deployment' = d
       /\ Logged("waitForDeployment", <<branchName, DeployTimeoutMinutes>>, d.success)
       /\ IF d.success /\ Present(d.url) THEN Goto("final_success")
          ELSE Goto("final_partial")
  /\ UNCHANGED <<cvars, qvars, job, statusMessageTs, branchName, fixResult, branchResult,
                 commitResult, prResult, git, repo>>

\* ------------------------------------------------------------------------
\* STEP 9: report the final results
\* ------------------------------------------------------------------------
FinalSuccessUpdate ==
  /\ pc = "final_success"
  /\ updateMessage(Goto("react_success"))
  /\ UNCHANGED <<cvars, qvars, job, locals, git, repo>>

\* the full-success exit returning the JobResult of the partial-success exit
FinalSuccessWithoutPreview ==
  /\ pc = "react_success"
  /\ addReaction("white_check_mark",
                 Return(JobResultOf(job.id, "completed", branchName, prResult.prUrl,
                                    Undef, fixResult, deployment, Undef)))
  /\ UNCHANGED <<cvars, qvars, job, locals, git, repo>>

FinalSuccessReturn ==
  /\ pc = "react_success"
  /\ addReaction("white_check_mark",
                 Return(JobResultOf(job.id, "completed", branchName, prResult.prUrl,
                                    deployment.url, fixResult, deployment, Undef)))
  /\ UNCHANGED <<cvars, qvars, job, locals, git, repo>>

FinalPartialUpdate ==
  /\ pc = "final_partial"
  /\ updateMessage(Goto("react_warning"))
  /\ UNCHANGED <<cvars, qvars, job, locals, git, repo>>

FinalPartialReturn ==
  /\ pc = "react_warning"
  /\ addReaction("warning",
                 Return(JobResultOf(job.id, "completed", branchName, prResult.prUrl,
                                    Undef, fixResult, deployment, Undef)))
  /\ UNCHANGED <<cvars, qvars, job, locals, git, repo>>

\* ------------------------------------------------------------------------
\* The top-level catch of processIssue
\* ------------------------------------------------------------------------
FailedResult ==
  JobResultOf(job.id, "failed", NoBranch, Undef, Undef, NoFix, NoDeployment, caught)

\* the catch block giving up when its edit of the status message fails
CatchNotifyNoFallback ==
  /\ pc = "catch"
  /\ IF statusMessageTs = Undef \/ statusMessageTs = ""
       THEN Return(FailedResult) /\ UNCHANGED log
       ELSE slackUpdate(Return(FailedResult), Return(FailedResult))
  /\ UNCHANGED <<cvars, qvars, job, locals, git, repo>>

\* the catch block counting the failed attempt on the job itself
CatchNotifyCountingRetry ==
  /\ pc = "catch"
  /\ IF statusMessageTs = Undef \/ statusMessageTs = ""
       THEN Return(FailedResult) /\ UNCHANGED log
       ELSE slackUpdate(Return(FailedResult), Goto("catch_fallback"))
  /\ job' = [job EXCEPT !.retryCount = @ + 1]
  /\ UNCHANGED <<cvars, qvars, locals, git, repo>>

\* try to edit the status message, when there is one
CatchNotify ==
  /\ pc = "catch"
  /\ IF statusMessageTs = Undef \/ statusMessageTs = ""
       THEN Return(FailedResult) /\ UNCHANGED log
       ELSE slackUpdate(Return(FailedResult), Goto("catch_fallback"))
  /\ UNCHANGED <<cvars, qvars, job, locals, git, repo>>

\* the edit failed: post a new message; a failure of this call is not caught
CatchFallbackPost ==
  /\ pc = "catch_fallback"
  /\ \/ \E ts \in TsValues :
          /\ Logged("postMessage", ts, TRUE)
          /\ Return(FailedResult)
     \/ /\ Logged("postMessage", Undef, FALSE)
        /\ pc' = "escaped"
        /\ caught' = SlackPostError
        /\ UNCHANGED jobResult
  /\ UNCHANGED <<cvars, qvars, job, locals, git, repo>>

Next ==
  \/ AckReaction
  \/ PostStatus
  \/ UpdCloning
  \/ InitializeRepo
  \/ UpdAgent
  \/ AnalyzeAndFix
  \/ AnalysisFailedExit
  \/ NoChangesExit
  \/ UpdBranch
  \/ CreateBranch
  \/ BranchFailedExit
  \/ UpdCommit
  \/ CommitChanges
  \/ CommitFailedExit
  \/ UpdPush
  \/ PushBranch
  \/ PushFailedExit
  \/ UpdPR
  \/ CreatePullRequest
  \/ PRFailedExit
  \/ AddLabels
  \/ UpdDeploy
  \/ WaitForDeployment
  \/ FinalSuccessUpdate
  \/ FinalSuccessReturn
  \/ FinalPartialUpdate
  \/ FinalPartialReturn
  \/ CatchNotify
  \/ CatchFallbackPost

Spec == Init /\ [][Next]_vars

\* ------------------------------------------------------------------------
\* Observations on a run of processIssue
\* ------------------------------------------------------------------------
Returned == pc = "returned"
Escaped == pc = "escaped"
Finished == Returned \/ Escaped

CallsOf(op) == {i \in 1..Len(log) : log[i].op = op}
Invoked(op) == CallsOf(op) # {}
FailedCalls(op) == {i \in CallsOf(op) : ~log[i].ok}
SucceededCalls(op) == {i \in CallsOf(op) : log[i].ok}

NoVersionControlWrite ==
  /\ ~Invoked("createBranch")
  /\ ~Invoked("commitChanges")
  /\ ~Invoked("pushBranch")
  /\ ~Invoked("createPullRequest")

\* ------------------------------------------------------------------------
\* Claims
\* ------------------------------------------------------------------------

\* C1: processIssue never lets an exception escape to its caller: whatever
\* the ports do, also when Slack calls throw inside the top-level catch, it
\* returns a JobResult, and a run in which a stage raised an exception
\* returns status 'failed'.
C1_NeverEscapes ==
  Finished =>
    /\ Returned
    /\ caught # Undef => jobResult.status = "failed"

\* C2: every JobResult with status 'failed' carries a present (defined and
\* non-empty) error text, on every exit path.
C2_FailedHasError ==
  (Returned /\ jobResult.status = "failed") => Present(jobResult.error)

\* C3: for every FixResult with success=true and an empty filesChanged list
\* the job terminates with status 'completed', and createBranch,
\* commitChanges, pushBranch and createPullRequest are never invoked.
C3_NoChangesCompleted ==
  (fixResult.success /\ Len(fixResult.filesChanged) = 0) =>
    /\ NoVersionControlWrite
    /\ Finished => (Returned /\ jobResult.status = "completed")

\* C4: for every FixResult with success=false the job terminates with status
\* 'failed' and a populated error, and no branch creation, commit, push or PR
\* creation is attempted.
C4_AnalysisFailureFailed ==
  (fixResult # NoFix /\ ~fixResult.success) =>
    /\ NoVersionControlWrite
    /\ Finished =>
         /\ Returned
         /\ jobResult.status = "failed"
         /\ Present(jobResult.error)

\* C5: if PR creation fails after a successful push (createPullRequest
\* returns without success or without a URL), the JobResult has status
\* 'completed', no prUrl, an error text and the branch name.
C5_PRFailureCompleted ==
  (Finished /\ SucceededCalls("pushBranch") # {}
            /\ prResult # NoPRResult
            /\ (~prResult.success \/ ~Present(prResult.prUrl))) =>
    /\ Returned
    /\ jobResult.status = "completed"
    /\ jobResult.prUrl = Undef
    /\ Present(jobResult.error)
    /\ jobResult.branchName # NoBranch

\* C6: if the deployment wait fails or times out after a successful PR
\* creation, the JobResult has status 'completed' and embeds the deployment
\* result, which has success=false and a non-empty error or status.
C6_DeployFailureCompleted ==
  (Finished /\ SucceededCalls("createPullRequest") # {}
            /\ FailedCalls("waitForDeployment") # {}) =>
    /\ Returned
    /\ jobResult.status = "completed"
    /\ jobResult.deployment = deployment
    /\ ~jobResult.deployment.success
    /\ Present(jobResult.deployment.error) \/ Present(jobResult.deployment.status)

\* C7: if generation produced at least one changed file, branch and commit
\* succeeded and pushBranch fails, the JobResult has status 'failed', an
\* error text that mentions the push and the FixResult attached, and neither
\* PR creation nor the deployment wait is attempted.
C7_PushFailureFailed ==
  (FailedCalls("pushBranch") # {}) =>
    /\ ~Invoked("createPullRequest")
    /\ ~Invoked("waitForDeployment")
    /\ Finished =>
         /\ Returned
         /\ jobResult.status = "failed"
         /\ jobResult.error = "Failed to push to remote"
         /\ jobResult.result = fixResult
         /\ jobResult.result # NoFix

\* C8: if createBranch or commitChanges returns success=false after a
\* successful generation, the job aborts with status 'failed', the FixResult
\* is attached to the JobResult and no later stage is invoked.
C8_BranchCommitFailureFailed ==
  (FailedCalls("createBranch") # {} \/ FailedCalls("commitChanges") # {}) =>
    /\ FailedCalls("createBranch") # {} => ~Invoked("commitChanges")
    /\ ~Invoked("pushBranch")
    /\ ~Invoked("createPullRequest")
    /\ ~Invoked("waitForDeployment")
    /\ Finished =>
         /\ Returned
         /\ jobResult.status = "failed"
         /\ jobResult.result = fixResult
         /\ jobResult.result # NoFix

\* a port call other than a reaction failed (threw or returned a failure)
SomePortFailed ==
  \E i \in 1..Len(log) : log[i].op # "addReaction" /\ ~log[i].ok

\* C9: when every port succeeds (repo init, generation with at least one
\* changed file, branch, commit, push, PR creation) and the deployment is
\* ready with a URL, the JobResult has status 'completed' with non-empty
\* branchName, prUrl and previewUrl.
C9_FullSuccess ==
  (Finished /\ ~SomePortFailed /\ deployment.success /\ Present(deployment.url)) =>
    /\ Returned
    /\ jobResult.status = "completed"
    /\ jobResult.branchName # NoBranch
    /\ jobResult.branchName = branchResult.branchName
    /\ Present(jobResult.prUrl)
    /\ Present(jobResult.previewUrl)

C9_Witness ==
  /\ Returned
  /\ ~SomePortFailed
  /\ deployment.success /\ Present(deployment.url)
  /\ SucceededCalls("initializeRepo") # {}
  /\ Len(fixResult.filesChanged) >= 1
  /\ SucceededCalls("createBranch") # {}
  /\ SucceededCalls("commitChanges") # {}
  /\ SucceededCalls("pushBranch") # {}
  /\ SucceededCalls("createPullRequest") # {}
  /\ jobResult.previewUrl = deployment.url

\* C10: the status message is created by exactly one postMessage call and
\* every progress notification is an updateMessage on the handle that call
\* returned; as long as no update call fails, no second message is posted.
C10_SingleStatusMessage ==
  /\ \A i \in CallsOf("updateMessage") :
       /\ SucceededCalls("postMessage") # {}
       /\ \A j \in SucceededCalls("postMessage") :
            (\A k \in CallsOf("postMessage") : j <= k) =>
               (j < i /\ log[i].arg = log[j].arg)
  /\ statusMessageTs # Undef => SucceededCalls("postMessage") # {}
  /\ FailedCalls("updateMessage") = {} => Cardinality(CallsOf("postMessage")) <= 1

C10_Witness ==
  /\ Returned
  /\ FailedCalls("updateMessage") = {}
  /\ Cardinality(CallsOf("updateMessage")) >= 8
  /\ Cardinality(SucceededCalls("postMessage")) = 1

\* the postMessage calls after the first one: the fallback messages
FallbackPosts ==
  {i \in CallsOf("postMessage") : \E j \in CallsOf("postMessage") : j < i}

\* the last updateMessage call of the job failed
LastUpdateFailed ==
  \E i \in FailedCalls("updateMessage") :
    \A k \in CallsOf("updateMessage") : k <= i

\* C11 as stated: whenever an updateMessage call fails during a job, exactly
\* one fallback new message is posted to the thread, never zero and never
\* more than one.
C11_OneFallbackPerFailedUpdate ==
  (Finished /\ FailedCalls("updateMessage") # {}) =>
    Cardinality({i \in FallbackPosts : log[i].ok}) = 1

\* C11 amended: a failed updateMessage is first answered by the edit the
\* top-level catch makes; exactly when that edit fails (the job's last
\* updateMessage call failed) one fallback postMessage call is made, directly
\* after the failed edit, and no job makes more than one fallback call.
C11_FallbackAfterFailedEdit ==
  /\ Cardinality(FallbackPosts) <= 1
  /\ \A i \in FallbackPosts :
       i > 1 /\ log[i - 1].op = "updateMessage" /\ ~log[i - 1].ok
  /\ Finished => (FallbackPosts # {} <=> LastUpdateFailed)

C11_Witness ==
  /\ Finished
  /\ Cardinality(FailedCalls("updateMessage")) = 2
  /\ Cardinality(FallbackPosts) = 1

FinalReactions ==
  {i \in CallsOf("addReaction") : log[i].arg \in {"white_check_mark", "warning"}}

\* C12: every terminal state of processIssue produces exactly one final
\* status-message edit and exactly one final reaction (success or warning
\* marker) on the triggering message.
C12_FinalEditAndReaction ==
  Finished =>
    /\ SucceededCalls("updateMessage") # {}
    /\ ~LastUpdateFailed
    /\ Cardinality(FinalReactions) = 1

\* the pipeline stages in their order
StageOrder ==
  <<"postMessage", "initializeRepo", "analyzeAndFix", "createBranch",
    "commitChanges", "pushBranch", "createPullRequest", "waitForDeployment">>

\* C13: within one job the stages run in the order acknowledge,
\* initializeRepo, analyzeAndFix, createBranch, commitChanges, pushBranch,
\* createPullRequest, waitForDeployment, final report; each stage is invoked
\* at most once and only after the previous stage succeeded.
C13_StageOrder ==
  /\ log # <<>> => log[1] = Call("addReaction", "eyes", log[1].ok)
  /\ \A k \in 2..Len(StageOrder) :
       /\ Cardinality(CallsOf(StageOrder[k])) <= 1
       /\ \A i \in CallsOf(StageOrder[k]) :
            \E j \in SucceededCalls(StageOrder[k - 1]) : j < i
  /\ Invoked("createBranch") => Len(fixResult.filesChanged) >= 1
  /\ \A i \in FinalReactions :
       /\ i = Len(log)
       /\ \E j \in CallsOf("waitForDeployment") : j < i
       /\ log[i - 1].op = "updateMessage" /\ log[i - 1].ok

C13_Witness ==
  /\ Returned
  /\ FinalReactions # {}
  /\ \A k \in 1..Len(StageOrder) : SucceededCalls(StageOrder[k]) # {}

\* ------------------------------------------------------------------------
\* The branch-name derivation on its own, for a larger set of request texts
\* ------------------------------------------------------------------------
\* texts of up to MaxTextLen characters
TextAlphabet == {"a", "B", "1", " ", "\t", "-", "!"}
ShortTexts == UNION {[1..n -> TextAlphabet] : n \in 0..MaxTextLen}

\* texts of up to MaxWords words separated by single spaces
TextWords ==
  {KwBug, KwFix, KwError, KwFeature, KwAdd, KwImplement, KwRefactor, KwImprove,
   KwOptimize, <<"t","i","d","y">>, <<"B","U","G">>, <<"A","d","d">>}

RECURSIVE WordTexts(_)
WordTexts(n) ==
  IF n = 0 THEN {<<>>}
  ELSE LET shorter == WordTexts(n - 1) IN
       shorter \cup {IF t = <<>> THEN w ELSE t \o <<" ">> \o w :
                       t \in shorter, w \in TextWords}

\* texts longer than the description and title limits
LongTexts ==
  {[i \in 1..(DescLen + 10) |-> IF i % 7 = 0 THEN " " ELSE "a"],
   [i \in 1..(TitleLen + 5) |-> IF i % 5 = 0 THEN "!" ELSE "Z"],
   [i \in 1..(DescLen + 1) |-> IF i <= 3 THEN KwFix[i] ELSE "-"]}

\* the request texts of the derivation: non-empty messages
SampleTexts ==
  (Texts \cup ShortTexts \cup WordTexts(MaxWords) \cup LongTexts) \ {<<>>}

JobOf(id, text) ==
  [id |-> id, text |-> text, channel |-> "C01234567",
   threadTs |-> id, userId |-> "U01234567", timestamp |-> 1700000000,
   retryCount |-> 0]

InitText ==
  /\ pc = "text"
  /\ job \in {[JobOf(id, t) EXCEPT !.userId = u, !.retryCount = r] :
                 id \in {"1700000000.000001", "1700000000.000002"},
                 u \in {"U01234567", "U07654321"},
                 r \in 0..1,
                 t \in SampleTexts}
  /\ Invoking(job)
  /\ Configured
  /\ statusMessageTs = Undef
  /\ branchName = NoBranch
  /\ fixResult = NoFix
  /\ branchResult = NoBranchResult
  /\ commitResult = NoCommitResult
  /\ prResult = NoPRResult
  /\ deployment = NoDeployment
  /\ caught = Undef
  /\ jobResult = NoJobResult
  /\ log = <<>>
  /\ git = FALSE
  /\ repo = NoRepo

\* processIssue: branchOptions; createBranch: generateBranchName(options)
DeriveBranchName ==
  /\ pc = "text"
  /\ pc' = "derived"
  /\ branchName' = deriveBranchName(job)
  /\ UNCHANGED <<cvars, qvars, job, statusMessageTs, fixResult, branchResult, commitResult,
                 prResult, deployment, caught, jobResult, log, git, repo>>

NextText == DeriveBranchName

SpecText == InitText /\ [][NextText]_vars

BranchTypes == {"fix", "feat", "refactor", "chore"}

\* C14: for every request text the derived branch name matches
\* ^(fix|feat|refactor|chore)/[a-z0-9-]{1,50}$ and contains no whitespace; in
\* particular the slug is never empty.
C14_BranchNameFormat ==
  pc = "derived" =>
    /\ branchName.prefix \in BranchTypes
    /\ Len(branchName.slug) >= 1
    /\ Len(branchName.slug) <= SlugLen
    /\ \A i \in 1..Len(branchName.slug) :
         branchName.slug[i] \in LowerChars \cup DigitChars \cup {"-"}

FixKeywords == {KwBug, KwFix, KwError}
FeatKeywords == {KwFeature, KwAdd, KwImplement}
RefactorKeywords == {KwRefactor, KwImprove, KwOptimize}

ContainsAny(text, keywords) ==
  \E kw \in keywords : includes(toLowerCase(text), kw)

\* C17: determineBranchType is a total, priority-ordered keyword match on the
\* lowercased text: 'fix' if it contains bug, fix or error; otherwise 'feat'
\* if it contains feature, add or implement; otherwise 'refactor' if it
\* contains refactor, improve or optimize; otherwise 'chore'. The first
\* matching category wins.
C17_KeywordPriority ==
  pc = "derived" =>
    /\ branchName.prefix \in BranchTypes
    /\ branchName.prefix = "fix" <=> ContainsAny(job.text, FixKeywords)
    /\ branchName.prefix = "feat" <=>
         (~ContainsAny(job.text, FixKeywords) /\ ContainsAny(job.text, FeatKeywords))
    /\ branchName.prefix = "refactor" <=>
         /\ ~ContainsAny(job.text, FixKeywords)
         /\ ~ContainsAny(job.text, FeatKeywords)
         /\ ContainsAny(job.text, RefactorKeywords)

C17_Witness ==
  /\ pc = "derived"
  /\ ContainsAny(job.text, FixKeywords)
  /\ ContainsAny(job.text, FeatKeywords)
  /\ job.text # toLowerCase(job.text)
  /\ branchName.prefix = "fix"

\* commitChanges found nothing to commit: success without a commit hash
NothingToCommit == commitResult.success /\ commitResult.hash = Undef

\* C16: if commitChanges finds no changes to commit after staging (the
\* working tree is clean and no git command fails), it returns success=true
\* with the current branch name and creates no new commit, and the job does
\* not fail at the commit stage: it goes on to the push.
C16_NothingToCommit ==
  [][(/\ pc = "commit"
      /\ pc' # "commit"
      /\ ~repo.dirty
      /\ commitResult'.error # GitCommandError)
     => /\ commitResult'.success
        /\ commitResult'.hash = Undef
        /\ commitResult'.branch = repo.current
        /\ commitResult'.branch = branchName
        /\ repo' = repo
        /\ pc' = "upd_push"]_vars

C16_Witness ==
  /\ Returned
  /\ NothingToCommit
  /\ repo.commits = <<>>
  /\ SucceededCalls("pushBranch") # {}
  /\ jobResult.status = "completed"

\* ------------------------------------------------------------------------
\* Job Queue (src/utils/queue.ts): jobs wait in arrival order, the registered
\* handler processIssue is invoked for one job at a time, a failed invocation
\* is retried a bounded number of times
\* ------------------------------------------------------------------------
MaxJobs == 2
\* the largest retryCount a job is re-enqueued with
MaxRetries == 1

JobIdNames == <<"1700000000.000001", "1700000000.000002", "1700000000.000003">>
JobIds == {JobIdNames[i] : i \in 1..MaxJobs}

\* the request texts of the queued jobs
QueueTexts == {<<"F","i","x"," ","b","u","g">>}

\* no job is being processed
NoJob == JobOf(Undef, <<>>)

Range(s) == {s[i] : i \in 1..Len(s)}

\* number of handler invocations made for job id
Attempts(id) == Cardinality({i \in 1..Len(started) : started[i] = id})

InitQueue ==
  /\ pc = "idle"
  /\ job = NoJob
  /\ statusMessageTs = Undef
  /\ branchName = NoBranch
  /\ fixResult = NoFix
  /\ branchResult = NoBranchResult
  /\ commitResult = NoCommitResult
  /\ prResult = NoPRResult
  /\ deployment = NoDeployment
  /\ caught = Undef
  /\ jobResult = NoJobResult
  /\ log = <<>>
  /\ git = FALSE
  /\ repo = NoRepo
  /\ queue = <<>>
  /\ handlerSet = FALSE
  /\ processing = FALSE
  /\ active = {}
  /\ enqueued = <<>>
  /\ started = <<>>
  /\ dropped = {}
  /\ Configured

\* the handler's frame is gone: processIssue's locals are those of a new call
FrameReset ==
  /\ pc' = "idle"
  /\ job' = NoJob
  /\ statusMessageTs' = Undef
  /\ branchName' = NoBranch
  /\ fixResult' = NoFix
  /\ branchResult' = NoBranchResult
  /\ commitResult' = NoCommitResult
  /\ prResult' = NoPRResult
  /\ deployment' = NoDeployment
  /\ caught' = Undef
  /\ jobResult' = NoJobResult
  /\ log' = <<>>

\* enqueue(job): the job goes to the back of the sequence; the caller gets
\* control back at once
Enqueue ==
  /\ \E id \in JobIds \ Range(enqueued), t \in QueueTexts :
       /\ queue' = Append(queue, JobOf(id, t))
       /\ enqueued' = Append(enqueued, id)
  /\ UNCHANGED <<cvars, pc, job, locals, caught, jobResult, log, git, repo,
                 handlerSet, processing, active, started, dropped>>

\* setHandler(handlerFunction)
SetHandler ==
  /\ ~handlerSet
  /\ handlerSet' = TRUE
  /\ UNCHANGED <<cvars, pc, job, locals, caught, jobResult, log, git, repo,
                 queue, processing, active, enqueued, started, dropped>>

\* draining that does not wait for the invocation under way to settle
DrainWhileProcessing ==
  /\ handlerSet
  /\ Len(queue) > 0
  /\ job' = Head(queue)
  /\ queue' = Tail(queue)
  /\ processing' = TRUE
  /\ active' = active \cup {Head(queue).id}
  /\ started' = Append(started, Head(queue).id)
  /\ pc' = "start"
  /\ UNCHANGED <<cvars, locals, caught, jobResult, log, git, repo,
                 handlerSet, enqueued, dropped>>

\* draining that takes the newest job
DrainNewestFirst ==
  /\ handlerSet
  /\ ~processing
  /\ Len(queue) > 0
  /\ job' = queue[Len(queue)]
  /\ queue' = SubSeq(queue, 1, Len(queue) - 1)
  /\ processing' = TRUE
  /\ active' = active \cup {queue[Len(queue)].id}
  /\ started' = Append(started, queue[Len(queue)].id)
  /\ pc' = "start"
  /\ UNCHANGED <<cvars, locals, caught, jobResult, log, git, repo,
                 handlerSet, enqueued, dropped>>

\* draining: when a handler is registered and no invocation is under way,
\* the oldest waiting job is taken and the handler is invoked for it
Drain ==
  /\ handlerSet
  /\ ~processing
  /\ Len(queue) > 0
  /\ job' = Head(queue)
  /\ queue' = Tail(queue)
  /\ processing' = TRUE
  /\ active' = active \cup {Head(queue).id}
  /\ started' = Append(started, Head(queue).id)
  /\ pc' = "start"
  /\ UNCHANGED <<cvars, locals, caught, jobResult, log, git, repo,
                 handlerSet, enqueued, dropped>>

\* the handler returned a JobResult: the job is discarded
SettleReturned ==
  /\ pc = "returned"
  /\ processing' = FALSE
  /\ active' = active \ {job.id}
  /\ FrameReset
  /\ UNCHANGED <<cvars, git, repo, queue, handlerSet, enqueued, started, dropped>>

\* a retry policy without the bound: a failed job always goes back
SettleRetryUnbounded ==
  /\ pc = "escaped"
  /\ queue' = Append(queue, [job EXCEPT !.retryCount = @ + 1])
  /\ processing' = FALSE
  /\ active' = active \ {job.id}
  /\ FrameReset
  /\ UNCHANGED <<cvars, git, repo, handlerSet, enqueued, started, dropped>>

\* the handler threw and attempts remain: the retry counter goes up and the
\* job goes to the back of the sequence
SettleRetry ==
  /\ pc = "escaped"
  /\ job.retryCount < MaxRetries
  /\ queue' = Append(queue, [job EXCEPT !.retryCount = @ + 1])
  /\ processing' = FALSE
  /\ active' = active \ {job.id}
  /\ FrameReset
  /\ UNCHANGED <<cvars, git, repo, handlerSet, enqueued, started, dropped>>

\* the handler threw on the last attempt: the job is dropped
SettleDrop ==
  /\ pc = "escaped"
  /\ job.retryCount >= MaxRetries
  /\ dropped' = dropped \cup {job.id}
  /\ processing' = FALSE
  /\ active' = active \ {job.id}
  /\ FrameReset
  /\ UNCHANGED <<cvars, git, repo, queue, handlerSet, enqueued, started>>

NextQueue ==
  \/ Next
  \/ Enqueue
  \/ SetHandler
  \/ Drain
  \/ SettleReturned
  \/ SettleRetry
  \/ SettleDrop

SpecQueue == InitQueue /\ [][NextQueue]_vars

\* the branch name createBranch derives for the job in hand
DerivedName == deriveBranchName(job)

\* C15: when createBranch runs while a same-named local branch from an
\* earlier run exists, it never fails with 'branch already exists'; unless a
\* git command fails it returns success with that branch name, the stale
\* branch and its commits are gone, the fresh branch is checked out, and no
\* other branch or commit is touched (no merge, no rename).
C15_StaleBranchRecreated ==
  [][(/\ pc = "create_branch"
      /\ pc' # "create_branch"
      /\ DerivedName \in repo.branches)
     => /\ branchResult'.error # BranchExistsError
        /\ branchResult'.error # GitCommandError =>
             /\ branchResult'.success
             /\ branchResult'.branchName = DerivedName
             /\ branchName' = DerivedName
             /\ pc' = "upd_commit"
             /\ repo'.current = DerivedName
             /\ repo'.branches = repo.branches
             /\ repo'.commits =
                  SelectSeq(repo.commits, LAMBDA c : c.branch # DerivedName)
             /\ repo'.pushed = repo.pushed]_vars

\* a second run recreated the branch an earlier run had committed to and pushed
C15_Witness ==
  /\ pc = "commit"
  /\ Len(started) >= 2
  /\ branchResult.success
  /\ branchName \in repo.pushed
  /\ repo.current = branchName
  /\ repo.commits = <<>>
  /\ repo.dirty

\* C18: at most one job is actively processing at any time: whatever the
\* interleaving of enqueue calls, the handler is invoked for a job only when
\* no earlier invocation is unsettled.
C18_OneActiveJob ==
  /\ Cardinality(active) <= 1
  /\ pc = "idle" => active = {}
  /\ pc # "idle" => active = {job.id}
  /\ processing <=> active # {}

\* a job arrived and waits while the handler is in the middle of another job
C18_Witness ==
  /\ pc = "commit"
  /\ Len(queue) >= 1
  /\ queue[1].id # job.id
  /\ active = {job.id}

\* position of the first handler invocation for job id
FirstStart(id) ==
  CHOOSE i \in 1..Len(started) :
    started[i] = id /\ \A k \in 1..(i - 1) : started[k] # id

\* C19: jobs reach the handler in enqueue order: if A was enqueued before B
\* and B's first handler invocation has started, A's first invocation
\* started before it.
C19_FIFO ==
  \A i, j \in 1..Len(enqueued) :
    (i < j /\ enqueued[j] \in Range(started)) =>
      /\ enqueued[i] \in Range(started)
      /\ FirstStart(enqueued[i]) < FirstStart(enqueued[j])

\* two jobs, enqueued while the first was waiting or running, both started;
\* the first one failed and ran again after the second
C19_Witness ==
  /\ Len(enqueued) = 2
  /\ Len(started) = 3
  /\ started[1] = enqueued[1]
  /\ started[2] = enqueued[2]
  /\ started[3] = enqueued[1]

\* C20: a failed handler invocation puts the job back with its retry counter
\* incremented while attempts remain, and drops it after the last one: no
\* job is attempted more than MaxRetries + 1 times, a waiting or running
\* job's retry counter counts its failed attempts, a dropped job has used
\* every attempt, and every exception that left the handler is taken by the
\* Queue (retry or drop), never handed to the enqueuer.
C20_BoundedRetry ==
  /\ \A id \in JobIds : Attempts(id) <= MaxRetries + 1
  /\ \A i \in 1..Len(queue) :
       /\ queue[i].retryCount <= MaxRetries
       /\ queue[i].retryCount = Attempts(queue[i].id)
       /\ queue[i].id \notin dropped
  /\ pc # "idle" => job.retryCount = Attempts(job.id) - 1
  /\ \A id \in dropped : Attempts(id) = MaxRetries + 1 /\ id \notin active
  /\ pc = "escaped" => ENABLED (SettleRetry \/ SettleDrop)

\* a job failed on every attempt and was dropped; the next job is running
C20_Witness ==
  /\ dropped # {}
  /\ pc = "start"
  /\ job.id \notin dropped
  /\ job.retryCount = 1

\* the step is one of the top-level catch handler of processIssue
InCatch == pc \in {"catch", "catch_fallback"}

\* the step made a Slack call that notifies the user
NotifiedInStep ==
  /\ Len(log') = Len(log) + 1
  /\ log'[Len(log')].op \in {"updateMessage", "postMessage"}

\* C21: for every job that ends through the top-level catch handler, the
\* handler attempts a user notification (an edit of the status message or a
\* new message), also when the failure happened before the status message
\* was created, and when the handler is left a 'failed' JobResult has been
\* produced.
C21_CatchNotifiesAndReturns ==
  [][/\ (pc = "catch" /\ pc' # "catch") => NotifiedInStep
     /\ (InCatch /\ ~InCatch') =>
          /\ pc' = "returned"
          /\ jobResult'.status = "failed"]_vars

SlackOps == {"postMessage", "updateMessage", "addReaction"}

\* the step made a SlackService call whose Slack API call failed
SlackCallFailedInStep ==
  /\ Len(log') = Len(log) + 1
  /\ log'[Len(log')].op \in SlackOps
  /\ ~log'[Len(log')].ok

\* control went to an exception handler, or out of processIssue by a throw
ThrewInStep == pc' \in {"catch", "catch_fallback", "escaped"}

\* C22: every SlackService method is fail-safe: when the Slack API call
\* fails the method logs the error and returns; the caller never sees an
\* exception.
C22_SlackFailSafe ==
  [][SlackCallFailedInStep => ~ThrewInStep]_vars

\* ------------------------------------------------------------------------
\* Loading the configuration at module load (config/index.ts)
\* ------------------------------------------------------------------------
InitConfig ==
  /\ pc = "config"
  /\ env \in Envs
  /\ config = NoConfig
  /\ job = NoJob
  /\ statusMessageTs = Undef
  /\ branchName = NoBranch
  /\ fixResult = NoFix
  /\ branchResult = NoBranchResult
  /\ commitResult = NoCommitResult
  /\ prResult = NoPRResult
  /\ deployment = NoDeployment
  /\ caught = Undef
  /\ jobResult = NoJobResult
  /\ log = <<>>
  /\ git = FALSE
  /\ repo = NoRepo
  /\ queue = <<>>
  /\ handlerSet = FALSE
  /\ processing = FALSE
  /\ active = {}
  /\ enqueued = <<>>
  /\ started = <<>>
  /\ dropped = {}

\* loadConfig: parse the raw configuration; a ZodError is reported and
\* replaced by Error('Invalid configuration. See errors above.')
loadConfig ==
  /\ pc = "config"
  /\ IF ConfigSchema(rawConfig(env))
       THEN /\ config' = ConfigOf(rawConfig(env))
            /\ pc' = "config_loaded"
            /\ caught' = caught
       ELSE /\ config' = NoConfig
            /\ pc' = "config_failed"
            /\ caught' = InvalidConfiguration
  /\ UNCHANGED <<env, qvars, job, locals, jobResult, log, git, repo>>

NextConfig == loadConfig

SpecConfig == InitConfig /\ [][NextConfig]_vars

\* the validation rule of a required variable, as the documentation states it
MeetsRule(v, x) ==
  CASE v = "SLACK_BOT_TOKEN" -> startsWith(x, Prefix.xoxb)
    [] v = "SLACK_SIGNING_SECRET" -> Len(x) > 0
    [] v = "SLACK_CHANNEL_ID" -> startsWith(x, Prefix.C)
    [] v = "ANTHROPIC_API_KEY" -> startsWith(x, Prefix.skAnt)
    [] v = "GITHUB_TOKEN" -> startsWith(x, Prefix.ghp)
    [] v = "GITHUB_USERNAME" -> Len(x) > 0
    [] v = "TARGET_REPO_URL" -> isUrl(x)

\* a required variable is missing or violates its rule
MissingOrInvalid(v) == env[v] = Unset \/ ~MeetsRule(v, env[v])

C24_InitFailureAborts ==
  FailedCalls("initializeRepo") # {} =>
    /\ ~Invoked("analyzeAndFix")
    /\ NoVersionControlWrite
    /\ Finished => (Returned /\ jobResult.status = "failed")

\* the status message could not be created at job start
StatusPostFailed ==
  /\ statusMessageTs = Undef
  /\ FailedCalls("postMessage") # {}

\* C25: if creating the status message fails at job start, the whole job
\* aborts: the result is 'failed' and no version-control, code-generation or
\* deployment port operation is invoked.
C25_StatusPostFailureAborts ==
  StatusPostFailed =>
    /\ ~Invoked("initializeRepo")
    /\ ~Invoked("analyzeAndFix")
    /\ NoVersionControlWrite
    /\ ~Invoked("addLabels")
    /\ ~Invoked("waitForDeployment")
    /\ Finished => (Returned /\ jobResult.status = "failed")

C25_Witness ==
  /\ Returned
  /\ StatusPostFailed
  /\ jobResult.status = "failed"
  /\ jobResult.error = SlackPostError

\* the step made an addReaction call
ReactionInStep ==
  /\ Len(log') = Len(log) + 1
  /\ log'[Len(log')].op = "addReaction"

\* C26: a failure of addReaction never throws upward, and the run does not
\* depend on it: after an addReaction call the stage reached, the locals and
\* the JobResult are determined by the state before the call alone, so a job
\* whose reactions all fail goes through the same stages and returns the
\* same JobResult as with successful reactions.
C26_ReactionFailureIgnored ==
  [][ReactionInStep =>
       /\ ~ThrewInStep
       /\ caught' = caught
       /\ UNCHANGED <<locals, git, repo>>
       /\ pc' = IF pc = "start" THEN "post_status" ELSE "returned"
       /\ jobResult' =
            CASE pc = "start" -> jobResult
              [] pc = "react_success" ->
                   JobResultOf(job.id, "completed", branchName, prResult.prUrl,
                               deployment.url, fixResult, deployment, Undef)
              [] pc = "react_warning" ->
                   JobResultOf(job.id, "completed", branchName, prResult.prUrl,
                               Undef, fixResult, deployment, Undef)]_vars

\* a full success although every reaction call failed
C26_Witness ==
  /\ Returned
  /\ Cardinality(CallsOf("addReaction")) = 2
  /\ SucceededCalls("addReaction") = {}
  /\ jobResult.status = "completed"
  /\ Present(jobResult.previewUrl)

\* C27: whenever processIssue reaches commitChanges the FixResult's list of
\* changed files is non-empty and exactly that list is staged, never a
\* blanket '.'; a commit made holds that same list.
C27_StagesChangedFiles ==
  /\ \A i \in CallsOf("commitChanges") :
       /\ Len(fixResult.filesChanged) >= 1
       /\ log[i].arg = fixResult.filesChanged
       /\ log[i].arg # <<".">>
  /\ pc = "commit" => Len(fixResult.filesChanged) >= 1
  /\ \A k \in 1..Len(repo.commits) : repo.commits[k].staged = fixResult.filesChanged

C27_Witness ==
  /\ Returned
  /\ Len(fixResult.filesChanged) = 2
  /\ SucceededCalls("commitChanges") # {}
  /\ Len(repo.commits) = 1
  /\ repo.commits[1].staged = fixResult.filesChanged

\* the pull request was created: success with a URL
PRCreated ==
  /\ prResult # NoPRResult
  /\ prResult.success
  /\ Present(prResult.prUrl)

\* the deployment stage has been entered
DeployStageEntered ==
  pc \in {"upd_deploy", "wait_deploy"} \/ Invoked("waitForDeployment")

\* addLabels was called with the fixed pair before any waitForDeployment call
LabelledBeforeDeploy ==
  \E i \in CallsOf("addLabels") :
    /\ log[i].arg = <<"automated", "claude-fix">>
    /\ \A j \in CallsOf("waitForDeployment") : i < j

DeployedWithUrl == deployment.success /\ Present(deployment.url)

ReactedWith(emoji) == \E i \in CallsOf("addReaction") : log[i].arg = emoji

\* C29: after a successful PR creation, whatever the deployment wait
\* returns, the job ends with status 'completed' and the PR URL; the
\* white_check_mark reaction and previewUrl are produced exactly when the
\* deployment has success=true and a URL, otherwise the warning reaction is
\* added and the JobResult has no previewUrl.
C29_DeployOutcomes ==
  (PRCreated /\ deployment # NoDeployment /\ Finished) =>
    /\ Returned
    /\ jobResult.status = "completed"
    /\ jobResult.prUrl = prResult.prUrl
    /\ DeployedWithUrl <=> ReactedWith("white_check_mark")
    /\ DeployedWithUrl <=> Present(jobResult.previewUrl)
    /\ ~DeployedWithUrl <=> ReactedWith("warning")

\* the text with each maximal run of characters outside a-z, 0-9 replaced by
\* one hyphen
RECURSIVE HyphenateRuns(_)
HyphenateRuns(s) ==
  IF s = <<>> THEN <<>>
  ELSE IF Head(s) \in LowerChars \cup DigitChars
         THEN <<Head(s)>> \o HyphenateRuns(Tail(s))
       ELSE IF Len(s) > 1 /\ s[2] \notin LowerChars \cup DigitChars
         THEN HyphenateRuns(Tail(s))
       ELSE <<"-">> \o HyphenateRuns(Tail(s))

\* C30: the branch slug is the sanitized description: lowercased, each run
\* of non-alphanumeric characters collapsed to one hyphen, capped at 50
\* characters.
C30_SlugSanitized ==
  pc = "derived" =>
    branchName.slug =
      substring(HyphenateRuns(toLowerCase(branchOptions(job.text).description)),
                SlugLen)

\* C31: the PR title is a type-tagged prefix followed by the request text
\* cut to 70 characters, with '...' appended exactly when the text is longer;
\* the prefix is 'Fix:' for branch type fix, 'Feature:' for feat and
\* 'Refactor:' for refactor, so the prefix names the branch type derived for
\* the same job.
C31_TitleMatchesBranchType ==
  \A i \in CallsOf("createPullRequest") :
    LET branch == log[i].arg[1]
        prTitle == log[i].arg[2]
    IN /\ prTitle.title = substring(job.text, TitleLen)
       /\ prTitle.ellipsis <=> Len(job.text) > TitleLen
       /\ prTitle.prefix \in {"Fix:", "Feature:", "Refactor:"}
       /\ prTitle.prefix = "Fix:" <=> branch.prefix = "fix"
       /\ prTitle.prefix = "Feature:" <=> branch.prefix = "feat"
       /\ prTitle.prefix = "Refactor:" <=> branch.prefix = "refactor"

\* the fields of an IssueJob
JobFields == {"id", "text", "channel", "threadTs", "userId", "timestamp", "retryCount"}

\* C32: processIssue leaves the job unchanged: on every path (success, early
\* exit, exception) the job's id, text, channel, threadTs, userId, timestamp
\* and retryCount have the same values after the call as before.
C32_JobUnchanged ==
  [][/\ DOMAIN job' = JobFields
     /\ \A f \in JobFields : job'[f] = job[f]]_vars

\* processIssue returned through its catch block
C32_Witness ==
  /\ Returned
  /\ jobResult.status = "failed"
  /\ caught # Undef
  /\ Len(log) > 1
  /\ DOMAIN job = JobFields

\* ------------------------------------------------------------------------
\* One processIssue run in which every awaited call settles
\* ------------------------------------------------------------------------
SpecLive == Init /\ [][Next]_vars /\ WF_vars(Next)

\* the positions of processIssue in the order of its text
PcOrder ==
  <<"start", "post_status", "upd_clone", "init_repo", "upd_agent", "analyze",
    "analysis_failed", "no_changes", "upd_branch", "create_branch",
    "branch_failed", "upd_commit", "commit", "commit_failed", "upd_push",
    "push", "push_failed", "upd_pr", "create_pr", "pr_failed", "add_labels",
    "upd_deploy", "wait_deploy", "final_success", "react_success",
    "final_partial", "react_warning", "catch", "catch_fallback", "returned",
    "escaped">>

Rank(l) == CHOOSE i \in 1..Len(PcOrder) : PcOrder[i] = l

\* C33: once a job begins processing it runs to a terminal state: when every
\* port call settles, the processIssue invocation terminates, and no stage is
\* entered more than once during the invocation (control only moves forward).
C33_Terminates ==
  /\ <>Finished
  /\ [][Rank(pc') > Rank(pc)]_vars

\* a run that went through every stage and returned
C33_Witness ==
  /\ Returned
  /\ jobResult.status = "completed"
  /\ \A k \in 1..Len(StageOrder) : Cardinality(CallsOf(StageOrder[k])) = 1
  /\ Rank(pc) = Len(PcOrder) - 1

C35_ResultWellFormed ==
  Returned =>
    /\ jobResult.jobId = job.id
    /\ jobResult.status \in {"completed", "failed"}
    /\ Present(jobResult.previewUrl) => Present(jobResult.prUrl)
    /\ Present(jobResult.prUrl) => jobResult.branchName # NoBranch
    /\ jobResult.branchName # NoBranch =>
         /\ \E i \in SucceededCalls("pushBranch") : log[i].arg = jobResult.branchName
         /\ jobResult.branchName \in repo.pushed

\* a result carrying all three of branchName, prUrl and previewUrl
C35_Witness ==
  /\ Returned
  /\ jobResult.status = "completed"
  /\ Present(jobResult.previewUrl)
  /\ Present(jobResult.prUrl)
  /\ jobResult.branchName \in repo.pushed

\* C36: durable work is never hidden by a later failure: whenever
\* createPullRequest returned success with a URL during a job, the JobResult
\* of that job has status 'completed' and carries that prUrl and the
\* branchName, whatever happens in the later label, deployment-wait and
\* notification steps.  (Stated here for the runs in which the label call
\* itself does not throw, so that only the notification steps can fail.)
C36_DurableWorkReported ==
  (/\ Finished
   /\ PRCreated
   /\ FailedCalls("addLabels") = {}) =>
    /\ Returned
    /\ jobResult.status = "completed"
    /\ jobResult.prUrl = prResult.prUrl
    /\ jobResult.branchName = branchName

\* C37: the derived branch name is a function of the request text alone (its
\* inferred type and its first 50 characters): it does not depend on the job
\* id, the requesting user, the timestamp or the retry count, so two jobs
\* with the same request text derive the same branch name.
C37_NameFromTextAlone ==
  pc = "derived" =>
    /\ branchName = deriveBranchName(JobOf("1700000000.000001", job.text))
    /\ branchName = [prefix |-> determineBranchType(job.text),
                     slug |-> sanitize(substring(job.text, DescLen))]

\* a derivation for a retried job of another user with another id
C37_Witness ==
  /\ pc = "derived"
  /\ job.id = "1700000000.000002"
  /\ job.userId = "U07654321"
  /\ job.retryCount = 1
  /\ branchName.slug # <<>>
  /\ branchName.prefix = "fix"

\* C38: slug sanitization in generateBranchName is idempotent: applying the
\* sanitization (lowercase, drop characters outside [a-z0-9 whitespace
\* hyphen], whitespace runs to a hyphen, truncate to 50) to an already
\* sanitized slug returns the same slug.
C38_SanitizeIdempotent ==
  pc = "derived" =>
    /\ branchName.slug = sanitize(branchOptions(job.text).description)
    /\ sanitize(branchName.slug) = branchName.slug

\* a slug that sanitization changed: a capital, a blank and a dropped
\* character in the text
C38_Witness ==
  /\ pc = "derived"
  /\ \E i \in 1..Len(job.text) : job.text[i] \in UpperChars
  /\ \E i \in 1..Len(job.text) : job.text[i] \in SpaceChars
  /\ Len(branchName.slug) < Len(job.text)
  /\ branchName.slug # <<>>
  /\ sanitize(branchName.slug) = branchName.slug

====
